---- MODULE Spec2Model ----
(***************************************************************************)
(* Executors framework: Task lifecycle, UnboundedBlockingQueue and the     *)
(* thread-pool Executor (src/unnamed/part_000, src/executors.h).           *)
(*                                                                         *)
(* Threads: NWorkers pool threads running Executor::RunTask, one client    *)
(* thread calling Executor::Submit, client calls of Task::Cancel and       *)
(* Executor::StartShutdown, NCallers threads calling                       *)
(* Executor::WaitShutdown (SpecJoin) or Task::Wait (SpecWait), and one     *)
(* thread calling Future::Get (SpecGet).  SpecComb runs a future made by   *)
(* Then, WhenAll, WhenFirst or WhenAllBeforeDeadline, whose thunk a worker *)
(* executes one call at a time; SpecQueue is the queue by itself.  Every   *)
(* critical section of the queue mutex and of a task mutex is one atomic   *)
(* step; Task::CanBeExecuted keeps the task's own mutex while it locks     *)
(* each dependency and trigger in turn, so it is one step per mutex it     *)
(* acquires.  Dependencies, triggers and time triggers are set before the  *)
(* first Submit and chosen by the initial predicate.                       *)
(***************************************************************************)
EXTENDS Integers, Sequences, FiniteSets, TLC

\* ---------------------------------------------------------------- bounds
NTasks == 2
NWorkers == 2
MaxDeps == 1
MaxTime == 1
MaxSubmits == 2
NCallers == 2
MaxCalls == 6

Tasks == 1..NTasks
Workers == 1..NWorkers
Callers == 1..NCallers

\* nullptr of std::shared_ptr<Task>
Null == 0
\* an unlocked std::mutex
NoThread == 0

\* enum class TaskStatus
kPending == "kPending"
kCompleted == "kCompleted"
kFailed == "kFailed"
kCanceled == "kCanceled"
TaskStatus == {kPending, kCompleted, kFailed, kCanceled}

\* an empty std::exception_ptr, and the exception a task's Run body throws
NoError == 0
ErrorOf(t) == 100 + t

\* a value_ that was never assigned, and the value a future's fn_ returns
NoValue == 0
ValueOf(t) == 10 + t

VARIABLES
    status_,        \* Task::status_
    e_ptr_,         \* Task::e_ptr_
    value_,         \* Future<T>::value_
    dependencies_,  \* Task::dependencies_
    triggers_,      \* Task::triggers_
    deadline_,      \* Task::deadline_
    mutex_,         \* Task::mutex_: the worker inside CanBeExecuted, or NoThread
    now,            \* std::chrono::system_clock::now()
    buffer_,        \* UnboundedBlockingQueue::buffer_
    stopped_,       \* UnboundedBlockingQueue::stopped_
    pc,             \* each worker's position in Executor::RunTask
    task,           \* RunTask's local `task`
    idx,            \* CanBeExecuted: the handle whose IsFinished is called next
    sub,            \* the client's position in Executor::Submit
    nSubmits,       \* number of Submit calls made
    runCount,       \* number of times Task::Run was entered
    enqueued,       \* history: the tasks a Submit call has put into the queue
    late,           \* history: the pending tasks a Submit call made after StartShutdown has returned from
    atClose,        \* history: each task's readiness when StartShutdown closed the queue
    joinable,       \* std::jthread::joinable() of each element of Executor::workers_
    wait,           \* each caller's position in Executor::WaitShutdown
    get,            \* the client's position in Future<T>::Get, and what Get gave
    kind,           \* the Executor member function that made the future
    all,            \* the vector `all` captured by a combinator's thunk
    thunk,          \* each worker's position in a combinator's thunk and its locals
    tookCanceled,   \* history: the task a worker tests or puts back was Canceled when Take returned it
    second,         \* history: a caller's WaitShutdown call began after another call had returned
    log,            \* history: what the calls made on the queue returned
    waiter,         \* each caller's position in Task::Wait
    wait_           \* Task::wait_: the threads blocked in wait_.wait(lock)

vars == <<status_, e_ptr_, value_, dependencies_, triggers_, deadline_, mutex_, now,
          buffer_, stopped_, pc, task, idx, sub, nSubmits, runCount,
          enqueued, late, atClose, joinable, wait, get,
          kind, all, thunk, tookCanceled, second, log, waiter, wait_>>

taskVars == <<status_, e_ptr_, value_>>
configVars == <<dependencies_, triggers_, deadline_, kind, all>>
queueVars == <<buffer_, stopped_>>
workerVars == <<pc, task, idx>>
submitVars == <<sub, nSubmits>>
historyVars == <<enqueued, late, atClose>>
clientVars == <<joinable, wait, get>>
logVars == <<tookCanceled, second, log>>
condVars == <<waiter, wait_>>

\* ------------------------------------------------------------------ Task

\* Task::IsFinished
IsFinished(t) == status_[t] # kPending

\* Task::IsCanceled
IsCanceled(t) == status_[t] = kCanceled

\* Task::CanBeExecuted, line 92: the time trigger has been reached
TimeReached(t) == ~(now < deadline_[t])

\* CanBeExecuted with the negation of line 87 lost: a finished dependency
\* blocks the task and an unfinished one does not.
DependencyBlocksNegated(d) == d # Null /\ IsFinished(d)

\* CanBeExecuted with IsCompleted in place of IsFinished at line 87: a
\* Failed or Canceled dependency blocks the task for ever.
DependencyBlocksUncompleted(d) == d # Null /\ status_[d] # kCompleted

\* Task::CanBeExecuted, line 87: this dependency makes it return false
DependencyBlocks(d) == d # Null /\ ~IsFinished(d)

\* Task::CanBeExecuted, line 97: this trigger makes it return true
TriggerFires(g) == g # Null /\ IsFinished(g)

NDeps(t) == Len(dependencies_[t])
NTrigs(t) == Len(triggers_[t])

\* The handle at position i of CanBeExecuted's two loops: the dependencies,
\* then the triggers.
HandleAt(t, i) ==
    IF i <= NDeps(t) THEN dependencies_[t][i] ELSE triggers_[t][i - NDeps(t)]

\* CanBeExecuted from position i on, up to the next IsFinished call (which
\* locks another task's mutex) or its return: a null handle is skipped, the
\* time trigger is compared between the two loops.
RECURSIVE Scan(_, _)
Scan(t, i) ==
    IF i <= NDeps(t)
    THEN IF dependencies_[t][i] = Null
         THEN Scan(t, i + 1)
         ELSE [kind |-> "lock", at |-> i]
    ELSE IF i = NDeps(t) + 1 /\ ~TimeReached(t)
    THEN [kind |-> "return", val |-> FALSE]
    ELSE IF i > NDeps(t) + NTrigs(t)
    THEN [kind |-> "return", val |-> NTrigs(t) = 0]
    ELSE IF triggers_[t][i - NDeps(t)] = Null
    THEN Scan(t, i + 1)
    ELSE [kind |-> "lock", at |-> i]

\* CanBeExecuted after IsFinished of the handle at position i has returned.
AfterRead(t, i) ==
    IF i <= NDeps(t)
    THEN IF DependencyBlocks(HandleAt(t, i))
         THEN [kind |-> "return", val |-> FALSE]
         ELSE Scan(t, i + 1)
    ELSE IF TriggerFires(HandleAt(t, i))
         THEN [kind |-> "return", val |-> TRUE]
         ELSE Scan(t, i + 1)

\* Where RunTask goes with CanBeExecuted's result (line 201).
AfterCanBeExecuted(val) == IF val THEN "IsCanceled" ELSE "Put"

\* The value Task::CanBeExecuted returns when nothing changes while it runs:
\* all dependencies finished, the time trigger reached, and a finished
\* trigger or no trigger at all.
Ready(t) ==
    /\ \A i \in DOMAIN dependencies_[t] :
          dependencies_[t][i] # Null => status_[dependencies_[t][i]] # kPending
    /\ now >= deadline_[t]
    /\ \/ triggers_[t] = <<>>
       \/ \E i \in DOMAIN triggers_[t] :
             triggers_[t][i] # Null /\ status_[triggers_[t][i]] # kPending

\* ------------------------------------------------------------------ Init

\* Sequences of at most MaxDeps handles of tasks other than t.  A task that
\* names itself re-locks its own non-recursive mutex in CanBeExecuted.
HandleSeqs(t) ==
    UNION {[1..n -> Tasks \ {t}] : n \in 0..MaxDeps}

\* The locals of a worker that is not inside a combinator's thunk.
ThunkStart == [pc |-> "Loop", i |-> 1, acc |-> <<>>, exc |-> NoError]

\* Pending tasks, an open queue, and every thread at the start of its code.
Quiescent ==
    /\ status_ = [t \in Tasks |-> kPending]
    /\ e_ptr_ = [t \in Tasks |-> NoError]
    /\ value_ = [t \in Tasks |-> NoValue]
    /\ mutex_ = [t \in Tasks |-> NoThread]
    /\ now = 0
    /\ stopped_ = FALSE
    /\ pc = [w \in Workers |-> "Take"]
    /\ task = [w \in Workers |-> Null]
    /\ idx = [w \in Workers |-> 0]
    /\ sub = [pc |-> "Idle", task |-> Null]
    /\ runCount = [t \in Tasks |-> 0]
    /\ late = {}
    /\ atClose = [t \in Tasks |-> "none"]
    /\ joinable = [w \in Workers |-> TRUE]
    /\ wait = [c \in Callers |-> [pc |-> "Idle", i |-> 0]]
    /\ get = [pc |-> "Idle", task |-> Null, res |-> <<>>]
    /\ thunk = [w \in Workers |-> ThunkStart]
    /\ tookCanceled = [w \in Workers |-> FALSE]
    /\ second = [c \in Callers |-> FALSE]
    /\ log = [n |-> 0, puts |-> <<>>, takes |-> <<>>, discarded |-> <<>>, ret |-> <<>>]
    /\ waiter = [c \in Callers |-> [pc |-> "Idle", task |-> Null]]
    /\ wait_ = [t \in Tasks |-> {}]

\* The executor and the tasks as their constructors leave them, before any
\* dependency, trigger or time trigger is set and before any Submit.
Constructed ==
    /\ Quiescent
    /\ buffer_ = <<>>
    /\ nSubmits = 0
    /\ enqueued = {}

\* Tasks made by the client (or by Invoke) with any dependencies, triggers
\* and time trigger.
Init ==
    /\ Constructed
    /\ kind = [t \in Tasks |-> "Invoke"]
    /\ all = [t \in Tasks |-> <<>>]
    /\ dependencies_ \in {f \in [Tasks -> UNION {HandleSeqs(t) : t \in Tasks}] :
                            \A t \in Tasks : f[t] \in HandleSeqs(t)}
    /\ triggers_ \in {f \in [Tasks -> UNION {HandleSeqs(t) : t \in Tasks}] :
                        \A t \in Tasks : f[t] \in HandleSeqs(t)}
    /\ deadline_ \in [Tasks -> 0..MaxTime]

\* ----------------------------------------------------------------- queue

\* Put with push_front in place of push_back: the queue is a stack.
PutFront(t) == IF stopped_ THEN buffer_ ELSE <<t>> \o buffer_

\* UnboundedBlockingQueue::Put: the buffer after Put(t)
Put(t) == IF stopped_ THEN buffer_ ELSE Append(buffer_, t)

\* UnboundedBlockingQueue::Put: what it returns
PutReturns == ~stopped_

\* UnboundedBlockingQueue::Take, once its wait is over: what it returns and
\* the buffer it leaves
TakeReturns == IF stopped_ /\ buffer_ = <<>> THEN Null ELSE Head(buffer_)
TakeBuffer == IF stopped_ /\ buffer_ = <<>> THEN buffer_ ELSE Tail(buffer_)

\* UnboundedBlockingQueue::CloseImpl(clear): the buffer it leaves
CloseImpl(clear) == IF clear THEN <<>> ELSE buffer_

\* ---------------------------------------------------------------- worker

\* RunTask line 200: Take() returns a task, or nullptr and the loop ends.
Take(w) ==
    /\ pc[w] = "Take"
    /\ stopped_ \/ buffer_ # <<>>
    /\ IF buffer_ = <<>>
       THEN /\ pc' = [pc EXCEPT ![w] = "Exited"]
            /\ UNCHANGED <<buffer_, task>>
       ELSE /\ pc' = [pc EXCEPT ![w] = "CanBeExecuted"]
            /\ task' = [task EXCEPT ![w] = Head(buffer_)]
            /\ buffer_' = Tail(buffer_)
    /\ idx' = [idx EXCEPT ![w] = 0]
    /\ tookCanceled' = [tookCanceled EXCEPT ![w] = buffer_ # <<>> /\ IsCanceled(Head(buffer_))]
    /\ UNCHANGED <<taskVars, configVars, mutex_, now, stopped_, submitVars, runCount, historyVars, clientVars, thunk, second, log, condVars>>

\* CanBeExecuted has reached `r`: it calls IsFinished next, or returns and
\* unlocks the task's mutex.
Reach(w, r) ==
    IF r.kind = "lock"
    THEN /\ idx' = [idx EXCEPT ![w] = r.at]
         /\ mutex_' = [mutex_ EXCEPT ![task[w]] = w]
         /\ UNCHANGED <<pc, tookCanceled>>
    ELSE /\ idx' = [idx EXCEPT ![w] = 0]
         /\ mutex_' = [mutex_ EXCEPT ![task[w]] = NoThread]
         /\ pc' = [pc EXCEPT ![w] = AfterCanBeExecuted(r.val)]
         /\ tookCanceled' = [tookCanceled EXCEPT ![w] = @ /\ ~r.val]

\* CanBeExecuted line 84: lock the task's own mutex.
CanBeExecutedLock(w) ==
    /\ pc[w] = "CanBeExecuted"
    /\ idx[w] = 0
    /\ mutex_[task[w]] = NoThread
    /\ Reach(w, Scan(task[w], 1))
    /\ UNCHANGED <<taskVars, configVars, now, queueVars, task, submitVars, runCount, historyVars, clientVars, thunk, second, log, condVars>>

\* CanBeExecuted lines 87 and 97: IsFinished() of a dependency or trigger,
\* which locks that task's mutex.
CanBeExecutedRead(w) ==
    /\ pc[w] = "CanBeExecuted"
    /\ idx[w] > 0
    /\ mutex_[HandleAt(task[w], idx[w])] = NoThread
    /\ Reach(w, AfterRead(task[w], idx[w]))
    /\ UNCHANGED <<taskVars, configVars, now, queueVars, task, submitVars, runCount, historyVars, clientVars, thunk, second, log, condVars>>

\* RunTask line 202: the task is not ready, put it back.
Requeue(w) ==
    /\ pc[w] = "Put"
    /\ buffer_' = Put(task[w])
    /\ pc' = [pc EXCEPT ![w] = "Take"]
    /\ tookCanceled' = [tookCanceled EXCEPT ![w] = FALSE]
    /\ UNCHANGED <<taskVars, configVars, mutex_, now, stopped_, task, idx, submitVars, runCount, historyVars, clientVars, thunk, second, log, condVars>>

\* RunTask line 205
CheckCanceled(w) ==
    /\ pc[w] = "IsCanceled"
    /\ mutex_[task[w]] = NoThread
    /\ pc' = [pc EXCEPT ![w] = IF IsCanceled(task[w]) THEN "Take" ELSE "Run"]
    /\ UNCHANGED <<taskVars, configVars, mutex_, now, queueVars, task, idx, submitVars, runCount, historyVars, clientVars, thunk, logVars, condVars>>

\* RunTask line 209: Run() is entered.
EnterRun(w) ==
    /\ pc[w] = "Run"
    /\ pc' = [pc EXCEPT ![w] = "Running"]
    /\ runCount' = [runCount EXCEPT ![task[w]] = @ + 1]
    /\ UNCHANGED <<taskVars, configVars, mutex_, now, queueVars, task, idx, submitVars, historyVars, clientVars, thunk, logVars, condVars>>

\* notify_one in place of notify_all: one blocked thread is woken.
NotifyOne(t) ==
    IF wait_[t] = {} THEN wait_
    ELSE [wait_ EXCEPT ![t] = @ \ {CHOOSE c \in @ : TRUE}]

\* wait_.notify_all() of task t: no thread stays blocked in wait_.wait
NotifyAll(t) == [wait_ EXCEPT ![t] = {}]

\* The task's future was made with a function of the client: Invoke, Then,
\* or a Future constructed directly.
HasClientFn(t) == kind[t] \in {"Invoke", "Then"}

\* Task::CompleteTask: the status it stores
CompleteTask(t) == [status_ EXCEPT ![t] = kCompleted]

\* Task::SaveError: the status and the error slot it stores
SaveErrorStatus(t) == [status_ EXCEPT ![t] = kFailed]
SaveError(t, e) == [e_ptr_ EXCEPT ![t] = e]

\* Future<T>::Run: stores the result of fn_ in value_
FutureRun(t) == [value_ EXCEPT ![t] = ValueOf(t)]

\* RunTask lines 209-210: Run() returns, then CompleteTask.
RunReturns(w) ==
    /\ pc[w] = "Running"
    /\ HasClientFn(task[w])
    /\ mutex_[task[w]] = NoThread
    /\ value_' = FutureRun(task[w])
    /\ status_' = CompleteTask(task[w])
    /\ wait_' = NotifyAll(task[w])
    /\ pc' = [pc EXCEPT ![w] = "Take"]
    /\ UNCHANGED <<e_ptr_, configVars, mutex_, now, queueVars, task, idx, submitVars, runCount, historyVars, clientVars, thunk, logVars, waiter>>

\* RunTask lines 211-213: Run() throws, then SaveError.
RunThrows(w) ==
    /\ pc[w] = "Running"
    /\ HasClientFn(task[w])
    /\ mutex_[task[w]] = NoThread
    /\ e_ptr_' = SaveError(task[w], ErrorOf(task[w]))
    /\ status_' = SaveErrorStatus(task[w])
    /\ wait_' = NotifyAll(task[w])
    /\ pc' = [pc EXCEPT ![w] = "Take"]
    /\ UNCHANGED <<value_, configVars, mutex_, now, queueVars, task, idx, submitVars, runCount, historyVars, clientVars, thunk, logVars, waiter>>

\* ---------------------------------------------------------------- client

\* Task::Cancel: the status it leaves
Canceled(t) ==
    IF status_[t] = kPending THEN [status_ EXCEPT ![t] = kCanceled] ELSE status_

\* Task::Cancel: the threads it leaves blocked in wait_.wait
CancelNotify(t) == IF status_[t] = kPending THEN NotifyAll(t) ELSE wait_

\* Task::Cancel called by a client
Cancel(t) ==
    /\ mutex_[t] = NoThread
    /\ status_' = Canceled(t)
    /\ wait_' = CancelNotify(t)
    /\ UNCHANGED <<e_ptr_, value_, configVars, mutex_, now, queueVars, workerVars, submitVars, runCount, historyVars, clientVars, thunk, logVars, waiter>>

\* Submit line 178: task_queue_.IsClosed()
SubmitIsClosed(t) ==
    /\ sub.pc = "Idle"
    /\ nSubmits < MaxSubmits
    /\ nSubmits' = nSubmits + 1
    /\ sub' = [pc |-> IF stopped_ THEN "Cancel" ELSE "IsCanceled", task |-> t]
    /\ UNCHANGED <<taskVars, configVars, mutex_, now, queueVars, workerVars, runCount, historyVars, clientVars, thunk, logVars, condVars>>

\* Submit line 179: task->Cancel(); return
SubmitCancel ==
    /\ sub.pc = "Cancel"
    /\ mutex_[sub.task] = NoThread
    /\ status_' = Canceled(sub.task)
    /\ sub' = [pc |-> "Idle", task |-> Null]
    /\ late' = IF status_[sub.task] = kPending THEN late \cup {sub.task} ELSE late
    /\ wait_' = CancelNotify(sub.task)
    /\ UNCHANGED <<e_ptr_, value_, configVars, mutex_, now, queueVars, workerVars, nSubmits, runCount, enqueued, atClose, clientVars, thunk, logVars, waiter>>

\* Submit line 182: task->IsCanceled()
SubmitIsCanceled ==
    /\ sub.pc = "IsCanceled"
    /\ mutex_[sub.task] = NoThread
    /\ sub' = IF IsCanceled(sub.task)
              THEN [pc |-> "Idle", task |-> Null]
              ELSE [sub EXCEPT !.pc = "Put"]
    /\ UNCHANGED <<taskVars, configVars, mutex_, now, queueVars, workerVars, nSubmits, runCount, historyVars, clientVars, thunk, logVars, condVars>>

\* Submit line 183: task_queue_.Put(task)
SubmitPut ==
    /\ sub.pc = "Put"
    /\ buffer_' = Put(sub.task)
    /\ sub' = [pc |-> "Idle", task |-> Null]
    /\ enqueued' = IF stopped_ THEN enqueued ELSE enqueued \cup {sub.task}
    /\ UNCHANGED <<taskVars, configVars, mutex_, now, stopped_, workerVars, nSubmits, runCount, late, atClose, clientVars, thunk, logVars, condVars>>

\* UnboundedBlockingQueue::CloseImpl(false)
Close == TRUE

\* Executor::StartShutdown: task_queue_.Close()
StartShutdown ==
    /\ stopped_' = Close
    /\ atClose' = IF stopped_ THEN atClose
                  ELSE [t \in Tasks |->
                          IF t \notin enqueued \/ status_[t] # kPending THEN "none"
                          ELSE IF Ready(t) THEN "ready" ELSE "unready"]
    /\ UNCHANGED <<taskVars, configVars, mutex_, now, buffer_, workerVars, submitVars, runCount, enqueued, late, clientVars, thunk, logVars, condVars>>

\* The system clock advances.
Tick ==
    /\ now < MaxTime
    /\ now' = now + 1
    /\ UNCHANGED <<taskVars, configVars, mutex_, queueVars, workerVars, submitVars, runCount, historyVars, clientVars, thunk, logVars, condVars>>

\* ---------------------------------------------------------- WaitShutdown

\* A caller's WaitShutdown is inside t.join() for workers_[w].
Joining(c, w) == wait[c].pc = "Join" /\ wait[c].i = w

\* WaitShutdown line 192, or 194 done: the loop goes on with workers_[i], or
\* the call returns.
LoopAt(i) == IF i > NWorkers THEN [pc |-> "Returned", i |-> 0] ELSE [pc |-> "Loop", i |-> i]

\* Executor::WaitShutdown is called.
WaitShutdownCall(c) ==
    /\ wait[c].pc \in {"Idle", "Returned", "Threw"}
    /\ wait' = [wait EXCEPT ![c] = LoopAt(1)]
    /\ second' = [second EXCEPT ![c] = \E d \in Callers : wait[d].pc = "Returned" \/ second[d]]
    /\ UNCHANGED <<taskVars, configVars, mutex_, now, queueVars, workerVars, submitVars, runCount, historyVars, joinable, get, thunk, tookCanceled, log, condVars>>

\* WaitShutdown with the joinable() test of line 193 left out: every worker
\* thread is joined again by every call.
WaitJoinableSkipped(c) ==
    /\ wait[c].pc = "Loop"
    /\ wait' = [wait EXCEPT ![c] = [pc |-> "Join", i |-> wait[c].i]]
    /\ UNCHANGED <<taskVars, configVars, mutex_, now, queueVars, workerVars, submitVars, runCount, historyVars, joinable, get, thunk, logVars, condVars>>

\* WaitShutdown line 193: t.joinable()
WaitJoinable(c) ==
    /\ wait[c].pc = "Loop"
    /\ wait' = [wait EXCEPT ![c] = IF joinable[wait[c].i]
                                   THEN [pc |-> "Join", i |-> wait[c].i]
                                   ELSE LoopAt(wait[c].i + 1)]
    /\ UNCHANGED <<taskVars, configVars, mutex_, now, queueVars, workerVars, submitVars, runCount, historyVars, joinable, get, thunk, logVars, condVars>>

\* What t.join() can do.  jthread::join is not synchronised: called while
\* another caller is inside join() of the same thread, or after another
\* caller has joined it, it is undefined; it then returns like the first
\* join, or throws std::system_error out of WaitShutdown.
JoinOutcomes(c) ==
    IF joinable[wait[c].i] /\ \A d \in Callers \ {c} : ~Joining(d, wait[c].i)
    THEN {"joined"}
    ELSE {"joined", "threw"}

\* WaitShutdown line 194: t.join() returns once the worker thread has ended.
WaitJoin(c) ==
    /\ wait[c].pc = "Join"
    /\ \E o \in JoinOutcomes(c) :
         IF o = "joined"
         THEN /\ pc[wait[c].i] = "Exited"
              /\ joinable' = [joinable EXCEPT ![wait[c].i] = FALSE]
              /\ wait' = [wait EXCEPT ![c] = LoopAt(wait[c].i + 1)]
         ELSE /\ wait' = [wait EXCEPT ![c] = [pc |-> "Threw", i |-> 0]]
              /\ UNCHANGED joinable
    /\ UNCHANGED <<taskVars, configVars, mutex_, now, queueVars, workerVars, submitVars, runCount, historyVars, get, thunk, logVars, condVars>>

WaitShutdown(c) ==
    \/ WaitShutdownCall(c)
    \/ WaitJoinable(c)
    \/ WaitJoin(c)

\* ------------------------------------------------------------ Future::Get

\* The value read from value_: one that Run never assigned is the
\* default-initialised T, indeterminate for a scalar T.
Indeterminate == {NoValue} \cup {ValueOf(u) : u \in Tasks}
ReadValue(t) ==
    IF value_[t] = NoValue
    THEN Indeterminate
    ELSE {value_[t]}

\* Future<T>::Get is called.
GetCall(t) ==
    /\ get.pc \in {"Idle", "Done"}
    /\ get' = [pc |-> "Wait", task |-> t, res |-> <<>>]
    /\ UNCHANGED <<taskVars, configVars, mutex_, now, queueVars, workerVars, submitVars, runCount, historyVars, joinable, wait, thunk, logVars, condVars>>

\* Get line 286: Task::Wait returns when the status is not kPending.
GetWait ==
    /\ get.pc = "Wait"
    /\ mutex_[get.task] = NoThread
    /\ status_[get.task] # kPending
    /\ get' = [get EXCEPT !.pc = "IsFailed"]
    /\ UNCHANGED <<taskVars, configVars, mutex_, now, queueVars, workerVars, submitVars, runCount, historyVars, joinable, wait, thunk, logVars, condVars>>

\* Get line 287: IsFailed()
GetIsFailed ==
    /\ get.pc = "IsFailed"
    /\ mutex_[get.task] = NoThread
    /\ get' = [get EXCEPT !.pc = IF status_[get.task] = kFailed THEN "GetError" ELSE "Return"]
    /\ UNCHANGED <<taskVars, configVars, mutex_, now, queueVars, workerVars, submitVars, runCount, historyVars, joinable, wait, thunk, logVars, condVars>>

\* Get line 288: rethrow_exception(GetError())
GetRethrow ==
    /\ get.pc = "GetError"
    /\ mutex_[get.task] = NoThread
    /\ get' = [get EXCEPT !.pc = "Done", !.res = <<"throws", e_ptr_[get.task]>>]
    /\ UNCHANGED <<taskVars, configVars, mutex_, now, queueVars, workerVars, submitVars, runCount, historyVars, joinable, wait, thunk, logVars, condVars>>

\* Get line 290: return value_
GetReturn ==
    /\ get.pc = "Return"
    /\ \E v \in ReadValue(get.task) :
         get' = [get EXCEPT !.pc = "Done", !.res = <<"returns", v>>]
    /\ UNCHANGED <<taskVars, configVars, mutex_, now, queueVars, workerVars, submitVars, runCount, historyVars, joinable, wait, thunk, logVars, condVars>>

Get ==
    \/ \E t \in Tasks : GetCall(t)
    \/ GetWait
    \/ GetIsFailed
    \/ GetRethrow
    \/ GetReturn

\* ------------------------------------------------------------ combinators

\* The future the combinator returns, and the vectors it can be given: the
\* other tasks are its inputs.
Combined == NTasks
Vectors == HandleSeqs(Combined)

\* Then, WhenAll, WhenFirst or WhenAllBeforeDeadline has made the future
\* Combined from the vector v (for Then: the one input) and the deadline d:
\* Then adds the input as a dependency, WhenFirst adds every element as a
\* trigger, WhenAllBeforeDeadline sets the time trigger, WhenAll (through
\* Invoke) sets nothing.
CombInit ==
    /\ Constructed
    /\ \E k \in {"Then", "WhenAll", "WhenFirst", "WhenAllBeforeDeadline"} :
       \E v \in Vectors : \E d \in 0..MaxTime :
          /\ k = "Then" => Len(v) = 1
          /\ k # "WhenAllBeforeDeadline" => d = 0
          /\ kind = [t \in Tasks |-> IF t = Combined THEN k ELSE "Invoke"]
          /\ all = [t \in Tasks |-> IF t = Combined THEN v ELSE <<>>]
          /\ dependencies_ = [t \in Tasks |-> IF t = Combined /\ k = "Then" THEN v ELSE <<>>]
          /\ triggers_ = [t \in Tasks |-> IF t = Combined /\ k = "WhenFirst" THEN v ELSE <<>>]
          /\ deadline_ = [t \in Tasks |-> IF t = Combined THEN d ELSE 0]

\* The worker is inside the thunk of the future it runs, at position p.
InThunk(w, p) ==
    /\ pc[w] = "Running"
    /\ ~HasClientFn(task[w])
    /\ thunk[w].pc = p

\* The element `task` of the thunk's loop over `all`.
Elem(w) == all[task[w]][thunk[w].i]

\* The loop over `all` has an element left: WhenAll calls Get on it;
\* WhenFirst and WhenAllBeforeDeadline call IsFinished and call Get only if
\* it is finished.
ThunkLoop(w) ==
    /\ InThunk(w, "Loop")
    /\ thunk[w].i <= Len(all[task[w]])
    /\ IF kind[task[w]] = "WhenAll"
       THEN thunk' = [thunk EXCEPT ![w].pc = "Wait"]
       ELSE /\ mutex_[Elem(w)] = NoThread
            /\ thunk' = IF IsFinished(Elem(w))
                         THEN [thunk EXCEPT ![w].pc = "Wait"]
                         ELSE [thunk EXCEPT ![w].i = @ + 1]
    /\ UNCHANGED <<taskVars, configVars, mutex_, now, queueVars, workerVars, submitVars, runCount, historyVars, clientVars, logVars, condVars>>

\* Get line 286 inside the thunk: Wait() blocks the worker until the
\* element is finished.
ThunkWait(w) ==
    /\ InThunk(w, "Wait")
    /\ mutex_[Elem(w)] = NoThread
    /\ IsFinished(Elem(w))
    /\ thunk' = [thunk EXCEPT ![w].pc = "IsFailed"]
    /\ UNCHANGED <<taskVars, configVars, mutex_, now, queueVars, workerVars, submitVars, runCount, historyVars, clientVars, logVars, condVars>>

\* Get line 287 inside the thunk: IsFailed()
ThunkIsFailed(w) ==
    /\ InThunk(w, "IsFailed")
    /\ mutex_[Elem(w)] = NoThread
    /\ thunk' = [thunk EXCEPT ![w].pc = IF status_[Elem(w)] = kFailed THEN "GetError" ELSE "Value"]
    /\ UNCHANGED <<taskVars, configVars, mutex_, now, queueVars, workerVars, submitVars, runCount, historyVars, clientVars, logVars, condVars>>

\* Get line 288 inside the thunk: the element's error is rethrown; nothing
\* in the thunk or in Run catches it.
ThunkGetError(w) ==
    /\ InThunk(w, "GetError")
    /\ mutex_[Elem(w)] = NoThread
    /\ thunk' = [thunk EXCEPT ![w].pc = "Caught", ![w].exc = e_ptr_[Elem(w)]]
    /\ UNCHANGED <<taskVars, configVars, mutex_, now, queueVars, workerVars, submitVars, runCount, historyVars, clientVars, logVars, condVars>>

\* Get line 290 inside the thunk: value_ of the element is returned;
\* WhenFirst returns it from the thunk, the other two append it.
ThunkValue(w) ==
    /\ InThunk(w, "Value")
    /\ \E v \in ReadValue(Elem(w)) :
          thunk' = IF kind[task[w]] = "WhenFirst"
                   THEN [thunk EXCEPT ![w].pc = "Return", ![w].acc = <<v>>]
                   ELSE [thunk EXCEPT ![w].pc = "Loop", ![w].i = @ + 1, ![w].acc = Append(@, v)]
    /\ UNCHANGED <<taskVars, configVars, mutex_, now, queueVars, workerVars, submitVars, runCount, historyVars, clientVars, logVars, condVars>>

\* What the thunk returns.  WhenAll and WhenAllBeforeDeadline return the
\* vector; WhenFirst returns the value Get gave, and when its loop ends
\* without a return the function flows off its end, which is undefined:
\* the caller gets an indeterminate value.
ThunkResults(w) ==
    IF kind[task[w]] = "WhenFirst"
    THEN IF thunk[w].pc = "Return" THEN {thunk[w].acc[1]} ELSE Indeterminate
    ELSE {thunk[w].acc}

\* The thunk returns, Run stores the result in value_, and RunTask line 210
\* calls CompleteTask.
ThunkReturn(w) ==
    /\ InThunk(w, "Return") \/ (InThunk(w, "Loop") /\ thunk[w].i > Len(all[task[w]]))
    /\ mutex_[task[w]] = NoThread
    /\ \E v \in ThunkResults(w) : value_' = [value_ EXCEPT ![task[w]] = v]
    /\ status_' = CompleteTask(task[w])
    /\ wait_' = NotifyAll(task[w])
    /\ pc' = [pc EXCEPT ![w] = "Take"]
    /\ thunk' = [thunk EXCEPT ![w] = ThunkStart]
    /\ UNCHANGED <<e_ptr_, configVars, mutex_, now, queueVars, task, idx, submitVars, runCount, historyVars, clientVars, logVars, waiter>>

\* RunTask lines 211-213: the error rethrown by Get leaves the thunk and
\* Run, and SaveError stores it in the combinator's future.
ThunkThrows(w) ==
    /\ InThunk(w, "Caught")
    /\ mutex_[task[w]] = NoThread
    /\ e_ptr_' = SaveError(task[w], thunk[w].exc)
    /\ status_' = SaveErrorStatus(task[w])
    /\ wait_' = NotifyAll(task[w])
    /\ pc' = [pc EXCEPT ![w] = "Take"]
    /\ thunk' = [thunk EXCEPT ![w] = ThunkStart]
    /\ UNCHANGED <<value_, configVars, mutex_, now, queueVars, task, idx, submitVars, runCount, historyVars, clientVars, logVars, waiter>>

Thunk(w) ==
    \/ ThunkLoop(w)
    \/ ThunkWait(w)
    \/ ThunkIsFailed(w)
    \/ ThunkGetError(w)
    \/ ThunkValue(w)
    \/ ThunkReturn(w)
    \/ ThunkThrows(w)

\* ------------------------------------------------------------- Task::Wait

\* Task::Wait is called on task t.
WaitCall(c, t) ==
    /\ waiter[c].pc \in {"Idle", "Returned"}
    /\ waiter' = [waiter EXCEPT ![c] = [pc |-> "Lock", task |-> t]]
    /\ UNCHANGED <<taskVars, configVars, mutex_, now, queueVars, workerVars, submitVars, runCount, historyVars, clientVars, thunk, logVars, wait_>>

\* Wait lines 138-140: with the mutex held, the loop test; wait_.wait(lock)
\* unlocks the mutex and blocks the thread in one atomic step.
WaitTest(c) ==
    /\ waiter[c].pc = "Lock"
    /\ mutex_[waiter[c].task] = NoThread
    /\ IF status_[waiter[c].task] = kPending
       THEN /\ waiter' = [waiter EXCEPT ![c].pc = "Blocked"]
            /\ wait_' = [wait_ EXCEPT ![waiter[c].task] = @ \cup {c}]
       ELSE /\ waiter' = [waiter EXCEPT ![c].pc = "Returned"]
            /\ UNCHANGED wait_
    /\ UNCHANGED <<taskVars, configVars, mutex_, now, queueVars, workerVars, submitVars, runCount, historyVars, clientVars, thunk, logVars>>

\* wait_.wait(lock) was notified: the thread locks the mutex again and goes
\* back to the loop test.
WaitNotified(c) ==
    /\ waiter[c].pc = "Blocked"
    /\ c \notin wait_[waiter[c].task]
    /\ waiter' = [waiter EXCEPT ![c].pc = "Lock"]
    /\ UNCHANGED <<taskVars, configVars, mutex_, now, queueVars, workerVars, submitVars, runCount, historyVars, clientVars, thunk, logVars, wait_>>

\* wait_.wait(lock) wakes up without a notification, as
\* std::condition_variable allows.
WaitSpurious(c) ==
    /\ waiter[c].pc = "Blocked"
    /\ c \in wait_[waiter[c].task]
    /\ wait_' = [wait_ EXCEPT ![waiter[c].task] = @ \ {c}]
    /\ waiter' = [waiter EXCEPT ![c].pc = "Lock"]
    /\ UNCHANGED <<taskVars, configVars, mutex_, now, queueVars, workerVars, submitVars, runCount, historyVars, clientVars, thunk, logVars>>

Wait(c) ==
    \/ \E t \in Tasks : WaitCall(c, t)
    \/ WaitTest(c)
    \/ WaitNotified(c)
    \/ WaitSpurious(c)

\* ------------------------------------------- calls on the queue by itself

\* A thread calls Put(t) on the queue.
QueuePut(t) ==
    /\ log.n < MaxCalls
    /\ buffer_' = Put(t)
    /\ log' = [log EXCEPT !.n = @ + 1,
                          !.puts = IF PutReturns THEN Append(@, t) ELSE @,
                          !.ret = <<"Put", PutReturns>>]
    /\ UNCHANGED <<taskVars, configVars, mutex_, now, stopped_, workerVars, submitVars, runCount, historyVars, clientVars, thunk, tookCanceled, second, condVars>>

\* A thread's Take() returns: not_empty_.wait lets it go on only when the
\* queue is stopped or not empty.
QueueTake ==
    /\ log.n < MaxCalls
    /\ stopped_ \/ buffer_ # <<>>
    /\ buffer_' = TakeBuffer
    /\ log' = [log EXCEPT !.n = @ + 1,
                          !.takes = IF TakeReturns # Null THEN Append(@, TakeReturns) ELSE @,
                          !.ret = <<"Take", TakeReturns>>]
    /\ UNCHANGED <<taskVars, configVars, mutex_, now, stopped_, workerVars, submitVars, runCount, historyVars, clientVars, thunk, tookCanceled, second, condVars>>

\* A thread calls Close() (clear = FALSE) or Cancel() (clear = TRUE).
QueueClose(clear) ==
    /\ log.n < MaxCalls
    /\ stopped_' = Close
    /\ buffer_' = CloseImpl(clear)
    /\ log' = [log EXCEPT !.n = @ + 1,
                          !.discarded = IF clear THEN @ \o buffer_ ELSE @,
                          !.ret = <<IF clear THEN "Cancel" ELSE "Close">>]
    /\ UNCHANGED <<taskVars, configVars, mutex_, now, workerVars, submitVars, runCount, historyVars, clientVars, thunk, tookCanceled, second, condVars>>

\* ------------------------------------------------------------------ Next

WorkerStep(w) ==
    \/ Take(w)
    \/ CanBeExecutedLock(w)
    \/ CanBeExecutedRead(w)
    \/ Requeue(w)
    \/ CheckCanceled(w)
    \/ EnterRun(w)
    \/ RunReturns(w)
    \/ RunThrows(w)

WorkerNext == \E w \in Workers : WorkerStep(w)

Next ==
    \/ WorkerNext
    \/ \E t \in Tasks : Cancel(t)
    \/ \E t \in Tasks : SubmitIsClosed(t)
    \/ SubmitCancel
    \/ SubmitIsCanceled
    \/ SubmitPut
    \/ StartShutdown
    \/ Tick

Spec == Init /\ [][Next]_vars

\* A chain of tasks: each task but the first depends on the one before it.
ChainInit ==
    /\ Constructed
    /\ kind = [t \in Tasks |-> "Invoke"]
    /\ all = [t \in Tasks |-> <<>>]
    /\ dependencies_ = [t \in Tasks |-> IF t = 1 THEN <<>> ELSE <<t - 1>>]
    /\ triggers_ = [t \in Tasks |-> <<>>]
    /\ deadline_ = [t \in Tasks |-> 0]

\* The executor with client threads calling WaitShutdown.
NextJoin == Next \/ \E c \in Callers : WaitShutdown(c)
SpecJoin == ChainInit /\ [][NextJoin]_vars

\* The executor with a client thread calling Future::Get.
NextGet == Next \/ Get
SpecGet == ChainInit /\ [][NextGet]_vars

\* The executor running a future made by a combinator.
NextComb == Next \/ \E w \in Workers : Thunk(w)
SpecComb == CombInit /\ [][NextComb]_vars

\* The chain of tasks after Submit was called once for each task, in any
\* order, and before a worker took one.
SubmittedInit ==
    /\ Quiescent
    /\ kind = [t \in Tasks |-> "Invoke"]
    /\ all = [t \in Tasks |-> <<>>]
    /\ dependencies_ = [t \in Tasks |-> IF t = 1 THEN <<>> ELSE <<t - 1>>]
    /\ triggers_ = [t \in Tasks |-> <<>>]
    /\ deadline_ = [t \in Tasks |-> 0]
    /\ buffer_ \in {s \in [1..NTasks -> Tasks] : \A i, j \in 1..NTasks : s[i] = s[j] => i = j}
    /\ nSubmits = NTasks
    /\ enqueued = Tasks

\* The workers, and client threads calling Task::Cancel and Task::Wait.
\* Every thread that can go on does so: a worker is never stopped for ever,
\* a notified waiter wakes up and gets the task's mutex.
NextWait ==
    \/ WorkerNext
    \/ \E t \in Tasks : Cancel(t)
    \/ \E c \in Callers : Wait(c)
SpecWait ==
    /\ SubmittedInit
    /\ [][NextWait]_vars
    /\ \A w \in Workers : WF_vars(WorkerStep(w))
    /\ \A c \in Callers : WF_vars(WaitNotified(c)) /\ WF_vars(WaitTest(c))

\* The queue by itself, with threads calling Put, Take, Close and Cancel.
NextQueue ==
    \/ \E t \in Tasks : QueuePut(t)
    \/ QueueTake
    \/ \E clear \in BOOLEAN : QueueClose(clear)
SpecQueue == ChainInit /\ [][NextQueue]_vars

\* ---------------------------------------------------------------- claims

AllExited == \A w \in Workers : pc[w] = "Exited"

C2_StatusMonotonic ==
    [][\A t \in Tasks : status_[t] # kPending => status_'[t] = status_[t]]_vars

\* C3: a task canceled before any worker entered its Run never has Run
\* entered afterwards and stays Canceled.
C3_CancelPreventsRun ==
    [][\A t \in Tasks :
         (status_[t] = kCanceled /\ runCount[t] = 0)
            => (runCount'[t] = 0 /\ status_'[t] = kCanceled)]_vars

\* C4: whenever a worker enters a task's Run, the task is Ready at that
\* moment: all dependencies finished, the time trigger reached, and a
\* trigger finished or no triggers.
C4_RunOnlyWhenReady ==
    [][\A t \in Tasks : runCount'[t] > runCount[t] => Ready(t)]_vars

\* C4 witness: Run has been entered for a task that has a dependency, a
\* trigger and a time trigger later than the initial time.
C4_Witness ==
    \E w \in Workers :
        /\ pc[w] = "Running"
        /\ dependencies_[task[w]] # <<>>
        /\ triggers_[task[w]] # <<>>
        /\ deadline_[task[w]] > 0

\* C5: a Pending task passed to Submit after StartShutdown is Canceled when
\* Submit returns, is not enqueued by it, and its Run is not entered
\* afterwards.
C5_LateSubmitCanceled ==
    [][/\ (sub.pc = "Cancel" /\ sub'.pc = "Idle" /\ status_[sub.task] = kPending)
            => (status_'[sub.task] = kCanceled /\ buffer_' = buffer_)
       /\ \A t \in late : runCount'[t] = runCount[t]]_vars

\* C6: after StartShutdown every worker leaves its loop: as long as a worker
\* has not exited, some worker can take a step.
C6_WorkersExit == stopped_ => (AllExited \/ ENABLED WorkerNext)

\* C8: a task that was enqueued, Pending and not Ready when StartShutdown
\* closed the queue is no longer Pending once the workers have exited.
C8_UnreadyCanceledAtShutdown ==
    AllExited => \A t \in Tasks : atClose[t] = "unready" => status_[t] # kPending

\* C9: a task that was enqueued and Ready when StartShutdown closed the
\* queue has been run, and is Completed or Failed, once the workers have
\* exited, unless it was canceled.
C9_ReadyTasksRun ==
    AllExited =>
        \A t \in Tasks :
            atClose[t] = "ready" =>
                \/ status_[t] = kCanceled
                \/ runCount[t] > 0 /\ status_[t] \in {kCompleted, kFailed}

\* C7: a WaitShutdown call that has returned leaves every worker thread
\* exited, and no two callers are inside join() of the same worker thread.
C7_WaitShutdownSafe ==
    /\ \A c \in Callers : wait[c].pc = "Returned" => AllExited
    /\ \A c, d \in Callers : \A w \in Workers :
          (c # d /\ Joining(c, w)) => ~Joining(d, w)

\* C10: Get returns only when the future is finished: the stored value when
\* it is Completed, the stored error rethrown when it is Failed, and a
\* Canceled error, never a value, when it is Canceled.
C10_GetOutcome ==
    [][(get.pc # "Done" /\ get'.pc = "Done") =>
          /\ status_[get.task] # kPending
          /\ status_[get.task] = kCompleted => get'.res = <<"returns", value_[get.task]>>
          /\ status_[get.task] = kFailed => get'.res = <<"throws", e_ptr_[get.task]>>
          /\ status_[get.task] = kCanceled => get'.res[1] = "throws"]_vars

\* C15: a task's error slot is non-empty exactly when its status is Failed;
\* a Run that throws leaves the task Failed with the thrown error stored, a
\* Run that returns leaves it Completed with an empty error slot.
C15_ErrorIffFailed ==
    /\ [](\A t \in Tasks : e_ptr_[t] # NoError <=> status_[t] = kFailed)
    /\ [][\A w \in Workers :
            (pc[w] = "Running" /\ pc'[w] = "Take") =>
                \/ status_'[task[w]] = kFailed /\ e_ptr_'[task[w]] = ErrorOf(task[w])
                \/ status_'[task[w]] = kCompleted /\ e_ptr_'[task[w]] = NoError]_vars

\* The task is in the channel or held by a worker between Take and the end
\* of that iteration of the loop.
InChannelOrHeld(t) ==
    \/ \E i \in DOMAIN buffer_ : buffer_[i] = t
    \/ \E w \in Workers : task[w] = t /\ pc[w] \notin {"Take", "Exited"}

\* C20: when Submit returns, and when a worker has put an unready task back,
\* a task that is still Pending is in the channel or held by a worker.
C20_NoTaskLost ==
    [][\A t \in Tasks :
         /\ (sub.pc # "Idle" /\ sub'.pc = "Idle" /\ sub.task = t /\ status_'[t] = kPending)
              => InChannelOrHeld(t)'
         /\ \A w \in Workers :
              (pc[w] = "Put" /\ pc'[w] = "Take" /\ task[w] = t /\ status_'[t] = kPending)
                  => InChannelOrHeld(t)']_vars

\* C17: a worker that took a Canceled task from the channel does not put it
\* back: the step that follows a false CanBeExecuted leaves the channel as
\* it was.
C17_CanceledNotRequeued ==
    [][\A w \in Workers :
         (pc[w] = "Put" /\ pc'[w] = "Take" /\ tookCanceled[w]) => buffer_' = buffer_]_vars

\* C16: StartShutdown on a closed queue changes neither the closed flag, nor
\* the channel, nor a task status; a WaitShutdown call that begins after
\* another call has returned never blocks in join() and never throws, and
\* its steps change nothing but the caller's own position.
C16_ShutdownIdempotent ==
    /\ [][(stopped_ /\ StartShutdown) => UNCHANGED <<stopped_, buffer_, status_>>]_vars
    /\ [](\A c \in Callers : second[c] => wait[c].pc \in {"Loop", "Returned"})
    /\ [][\A c \in Callers :
            (second[c] /\ wait[c].pc = "Loop" /\ wait'[c] # wait[c])
                => UNCHANGED <<taskVars, queueVars, workerVars, joinable>>]_vars

\* C16 witness: a WaitShutdown call made after another one had returned has
\* returned too, on an executor that was shut down.
C16_Witness ==
    /\ stopped_
    /\ \E c \in Callers : second[c] /\ wait[c].pc = "Returned"

\* C18: the handles Put accepted are, in order, those Take returned, then
\* those Cancel discarded, then those still in the buffer; Put returns false
\* exactly when the queue is closed and then leaves the buffer alone; Take
\* returns none only when the queue is closed and empty, and the front of
\* the buffer otherwise, also after Close.
C18_QueueContract ==
    /\ [](log.puts = log.takes \o log.discarded \o buffer_)
    /\ [][log'.n > log.n =>
            /\ log'.ret[1] = "Put" =>
                  /\ log'.ret[2] = ~stopped_
                  /\ stopped_ => buffer_' = buffer_
            /\ log'.ret[1] = "Take" =>
                  /\ log'.ret[2] = Null => stopped_ /\ buffer_ = <<>>
                  /\ buffer_ # <<>> => log'.ret[2] = Head(buffer_)]_vars

\* C18 witness: two different handles were put, the queue was closed, both
\* were taken in the order they were put, and the next Take returned none.
C18_Witness ==
    /\ stopped_
    /\ Len(log.takes) = 2
    /\ log.takes[1] # log.takes[2]
    /\ log.discarded = <<>>
    /\ log.ret = <<"Take", Null>>

Elements(t) == {all[t][i] : i \in DOMAIN all[t]}

\* C11: a future made by WhenAllBeforeDeadline is never Failed, and when it
\* is Completed its result holds only values of elements that are
\* Completed.
C11_DeadlineNeverFailed ==
    \A t \in Tasks :
        kind[t] = "WhenAllBeforeDeadline" =>
            /\ status_[t] # kFailed
            /\ status_[t] = kCompleted =>
                  \A i \in DOMAIN value_[t] :
                      \E e \in Elements(t) :
                          status_[e] = kCompleted /\ value_[t][i] = ValueOf(e)

\* C12: Run of a future made by WhenAll is entered only when every element
\* of the vector is finished, and a worker inside the thunk's Get is never
\* waiting for an unfinished element.
C12_WhenAllWaitsForAll ==
    /\ [][\A t \in Tasks :
            (kind[t] = "WhenAll" /\ runCount'[t] > runCount[t])
                => \A e \in Elements(t) : IsFinished(e)]_vars
    /\ [](\A w \in Workers :
            (InThunk(w, "Wait") /\ kind[task[w]] = "WhenAll") => IsFinished(Elem(w)))

\* C13: for a future made by Then, Run is entered only when the input is
\* finished; CanBeExecuted returns true whenever the input is finished,
\* whichever terminal status it has; the future becomes Failed only by its
\* own Run throwing its own error, and Canceled only by a step of a client,
\* not of a worker.
C13_ThenAfterInput ==
    [][\A t \in Tasks :
         kind[t] = "Then" =>
            /\ runCount'[t] > runCount[t] => IsFinished(all[t][1])
            /\ \A w \in Workers :
                  (/\ task[w] = t
                   /\ pc[w] = "CanBeExecuted"
                   /\ pc'[w] # "CanBeExecuted"
                   /\ IsFinished(all[t][1]))
                      => pc'[w] = "IsCanceled"
            /\ (status_[t] # kFailed /\ status_'[t] = kFailed)
                  => /\ \E w \in Workers : task[w] = t /\ pc[w] = "Running" /\ pc'[w] = "Take"
                     /\ e_ptr_'[t] = ErrorOf(t)
            /\ (status_[t] # kCanceled /\ status_'[t] = kCanceled)
                  => UNCHANGED workerVars]_vars

\* C13 witness: the function given to Then is running although its input
\* ended Failed.
C13_Witness ==
    \E w \in Workers :
        /\ pc[w] = "Running"
        /\ kind[task[w]] = "Then"
        /\ status_[all[task[w]][1]] = kFailed
        /\ status_[task[w]] = kPending

\* C14: Run of a future made by WhenFirst is entered only when an element
\* of the vector is finished, and the thunk's loop never ends without
\* having found a finished element.
C14_WhenFirstFindsOne ==
    /\ [][\A t \in Tasks :
            (kind[t] = "WhenFirst" /\ runCount'[t] > runCount[t])
                => \E e \in Elements(t) : IsFinished(e)]_vars
    /\ [](\A w \in Workers :
            (InThunk(w, "Loop") /\ kind[task[w]] = "WhenFirst")
                => thunk[w].i <= Len(all[task[w]]))

====
